---- MODULE Spec2Model ----
(***************************************************************************)
(* Model of new_datasets/fakeavceleb_light.py: the Fakeavceleb dataset     *)
(* (__getitem__, load_feature) and the FakeavcelebDataModule (setup, the   *)
(* two partition policies, collater).                                      *)
(*                                                                         *)
(* Strings are sequences of tokens, so that Python's `in` on strings is a  *)
(* real substring test.  Feature arrays are sequences of frames; a frame   *)
(* carries the position it came from, and 0 is a zero (padding) value.     *)
(***************************************************************************)
EXTENDS Integers, Sequences, FiniteSets, TLC

VARIABLES dataset, media, item, dm, samples, batch, stacked, loader

vars == <<dataset, media, item, dm, samples, batch, stacked, loader>>

(***************************************************************************)
(* Bounds of the model.                                                    *)
(***************************************************************************)
MaxTypeLen == 3       \* tokens in a manifest `type` string
MaxMethodLen == 2     \* tokens in a manifest `method` string
MaxChannels == 2      \* channels of a wav file
MaxAudioFrames == 9   \* log-filterbank frames of a waveform
MaxVideoFrames == 3   \* frames of a video
FeatDim == 1          \* width of one log-filterbank frame
MaxRows == 5          \* rows of the manifest
MaxBatch == 2         \* samples handed to collater
MaxLen == 2           \* frames of one sample handed to collater
MaxStackLen == 5      \* frames handed to stacker on its own
MaxStackOrder == 4    \* stack orders tried on stacker
MaxDataset == 4       \* samples of the dataset a loader iterates
MaxBatchSize == 2     \* batch_size of the data module
MaxWorkers == 2       \* num_workers of the data module

(***************************************************************************)
(* Python helpers.                                                         *)
(***************************************************************************)
\* `pat in s` on strings.
IsSubstr(pat, s) ==
    \E i \in 0..(Len(s) - Len(pat)) : SubSeq(s, i + 1, i + Len(pat)) = pat

SeqsUpTo(S, n) == UNION { [1..k -> S] : k \in 0..n }

Min(a, b) == IF a < b THEN a ELSE b
Max(a, b) == IF a > b THEN a ELSE b

\* np.zeros([n, d])
Zeros(n, d) == [i \in 1..n |-> [j \in 1..d |-> 0]]

\* a[start:end] for 0 <= start
Slice(a, start, end) == SubSeq(a, start + 1, Min(end, Len(a)))

\* Optional values: None, or a value x as Some(x).
None == <<>>
Some(x) == <<x>>
Get(o) == o[1]

\* a[:n] for 0 <= n
Take(a, n) == SubSeq(a, 1, Min(n, Len(a)))

(***************************************************************************)
(* Strings of the manifest.                                                *)
(***************************************************************************)
RealVideo == <<"RealVideo">>
RealAudio == <<"RealAudio">>
RealVideoRealAudio == <<"RealVideo", "-", "RealAudio">>
FakeVideoRealAudio == <<"FakeVideo", "-", "RealAudio">>
RealVideoFakeAudio == <<"RealVideo", "-", "FakeAudio">>
FakeVideoFakeAudio == <<"FakeVideo", "-", "FakeAudio">>
real == <<"real">>
faceswap == <<"faceswap">>
faceswap_wav2lip == <<"faceswap", "-", "wav2lip">>
train == <<"t", "r", "a", "i", "n">>
val == <<"v", "a", "l">>
test == <<"t", "e", "s", "t">>

TypeTokens == {"RealVideo", "FakeVideo", "RealAudio", "FakeAudio", "-"}
MethodTokens == {"real", "wav2lip", "-"}
Categories == {"A", "B", "C", "D"}
CanonicalTypes ==
    {RealVideoRealAudio, FakeVideoRealAudio, RealVideoFakeAudio, FakeVideoFakeAudio}

(***************************************************************************)
(* Fakeavceleb.__getitem__: the six labels.                                *)
(***************************************************************************)
c_label(meta) ==
    IF IsSubstr(RealVideo, meta.type) /\ IsSubstr(RealAudio, meta.type) THEN 1 ELSE 0

v_label(meta) == IF IsSubstr(RealVideo, meta.type) THEN 1 ELSE 0

a_label(meta) == IF IsSubstr(RealAudio, meta.type) THEN 1 ELSE 0

m_label(meta) == IF IsSubstr(real, meta.method) THEN 1 ELSE 0

mm_label(meta) ==
    IF IsSubstr(RealVideoRealAudio, meta.type) THEN 0
    ELSE IF IsSubstr(FakeVideoRealAudio, meta.type) THEN 1
    ELSE IF IsSubstr(RealVideoFakeAudio, meta.type) THEN 2
    ELSE 3

s_label_mut(meta, modified) == IF meta.category = "B" THEN 0 ELSE 1

s_label(meta, modified) ==
    IF modified THEN 0
    ELSE IF meta.category = "B" THEN 0 ELSE 1

(***************************************************************************)
(* Fakeavceleb.load_feature.                                               *)
(***************************************************************************)
stack_order_audio == 4

\* logfbank(wav_data): n frames of FeatDim values; frame i holds i.
logfbank(n) == [i \in 1..n |-> [j \in 1..FeatDim |-> i]]

\* load_video: n frames; frame i holds i.
load_video(n) == [i \in 1..n |-> i]

RECURSIVE Flatten(_)
Flatten(rows) == IF rows = <<>> THEN <<>> ELSE Head(rows) \o Flatten(Tail(rows))

\* Lines 187-190 without the test of the remainder.
stacker_always_pads(feats, stack_order) ==
    LET feat_dim == FeatDim
        padded == feats \o Zeros(stack_order - (Len(feats) % stack_order), feat_dim)
    IN  [t \in 1..(Len(padded) \div stack_order) |->
            Flatten(SubSeq(padded, (t - 1) * stack_order + 1, t * stack_order))]

stacker(feats, stack_order) ==
    LET feat_dim == FeatDim
        padded == IF Len(feats) % stack_order # 0
                  THEN feats \o Zeros(stack_order - (Len(feats) % stack_order), feat_dim)
                  ELSE feats
    IN  [t \in 1..(Len(padded) \div stack_order) |->
            Flatten(SubSeq(padded, (t - 1) * stack_order + 1, t * stack_order))]

\* Lines 219-226: the audio is padded with zero frames or cut to the video's length.
align_mut(audio_feats, video_feats) ==
    LET diff == Len(audio_feats) - Len(video_feats)
    IN  IF diff < 0
        THEN audio_feats \o Zeros(-diff, stack_order_audio * FeatDim)
        ELSE audio_feats

align(audio_feats, video_feats) ==
    LET diff == Len(audio_feats) - Len(video_feats)
    IN  IF diff < 0
        THEN audio_feats \o Zeros(-diff, stack_order_audio * FeatDim)
        ELSE IF diff > 0
        THEN Take(audio_feats, Len(audio_feats) - diff)
        ELSE audio_feats

\* Line 206 without the test of the subset.
subset_in_train_mut(subset) == TRUE

\* self.subset in "train"
subset_in_train(subset) == IsSubstr(subset, train)

\* The whole of load_feature on one file pair.  m is what the files hold,
\* coin is the outcome of `random.random() < p`.
load_feature(self, m, coin) ==
    LET video_feats == load_video(m.video_frames)
        \* wavfile.read gives a 1-D array for one channel, [N, channels] otherwise
        ndim_read == IF m.channels = 1 THEN 1 ELSE 2
        \* wav_data[:, 0] leaves one dimension fewer
        ndim == ndim_read - 1
        modified == self.augmenation /\ subset_in_train(self.subset) /\ coin
        audio_feats == stacker(logfbank(m.audio_frames), stack_order_audio)
    IN  IF ndim_read = 1
        THEN \* wav_data[:, 0] on a 1-D array
             [status |-> "IndexError"]
        ELSE IF ~(m.sample_rate = 16000 /\ ndim = 1)
        THEN [status |-> "AssertionError"]
        ELSE [status |-> "ok", video |-> video_feats,
              audio |-> align(audio_feats, video_feats), modified |-> modified]

\* Fakeavceleb.__getitem__
getitem(self, index, m, coin) ==
    LET meta == self.metadata[index]
        f == load_feature(self, m, coin)
    IN  IF f.status # "ok" THEN [status |-> f.status, id |-> index]
        ELSE [status |-> "ok", id |-> index, video |-> f.video, audio |-> f.audio,
              modified |-> f.modified,
              v_label |-> v_label(meta), a_label |-> a_label(meta),
              c_label |-> c_label(meta), m_label |-> m_label(meta),
              mm_label |-> mm_label(meta), s_label |-> s_label(meta, f.modified)]

(***************************************************************************)
(* FakeavcelebDataModule.setup and the two partition policies.  A split is *)
(* the set of manifest positions (the DataFrame index labels) it holds.    *)
(***************************************************************************)
\* Row counts of the policies, scaled down from the source's values.
new_train_AB == 1       \* 350: sample(350) of category A, of category B
new_val_AB == 1         \* 50: [:50] of what train left of A, of B
new_train_CD == 1       \* 175: sample(n=175) per method of C, of D
new_val_CD == 1         \* 25: sample(n=25) per method of what train left
new_test_CD == 1        \* 100: sample(n=100) of the held-out method
original_train == 1     \* 400: [:400] per category
original_test == 1      \* 100: [:100] per category

\* df[...][:n]: the first n positions of S.
HeadSet(S, n) == { i \in S : Cardinality({ j \in S : j < i }) < n }

\* df.sample(n, random_state=42): some n rows of S; ValueError when S is smaller.
sample_ok(S, n) == Cardinality(S) >= n
sample(S, n) == { T \in SUBSET S : Cardinality(T) = n }

\* df.groupby("method").sample(n=n, random_state=42): n rows of every method
\* that occurs in S; ValueError when some method has fewer.
group(df, S, m) == { i \in S : df[i].method = m }
methods(df, S) == { df[i].method : i \in S }
groupby_sample_ok(df, S, n) ==
    \A m \in methods(df, S) : Cardinality(group(df, S, m)) >= n
groupby_sample(df, S, n) ==
    { T \in SUBSET S : \A m \in methods(df, S) : Cardinality(group(df, T, m)) = n }

in_category(df, c) == { i \in DOMAIN df : df[i].category = c }

\* Lines 294, 296: df[category].drop(train.index)[:50]
new_val_rows_mut(df, c, train_c) == HeadSet(in_category(df, c), new_val_AB)

new_val_rows(df, c, train_c) == HeadSet(in_category(df, c) \ train_c, new_val_AB)

\* No split attribute assigned.
Unset(status) ==
    [status |-> status, train_metadata |-> {}, val_metadata |-> {}, test_metadata |-> {}]

\* set_new_dataset: every result the seeded sampling can give.  An exception
\* leaves the attributes assigned before it.
set_new_dataset(df) ==
    LET A == in_category(df, "A")
        B == in_category(df, "B")
        C == { i \in in_category(df, "C") : df[i].method # faceswap }
        D == { i \in in_category(df, "D") : df[i].method # faceswap_wav2lip }
        Cf == { i \in in_category(df, "C") : df[i].method = faceswap }
        Df == { i \in in_category(df, "D") : df[i].method = faceswap_wav2lip }
    IN  IF ~(sample_ok(A, new_train_AB) /\ sample_ok(B, new_train_AB)
             /\ groupby_sample_ok(df, C, new_train_CD)
             /\ groupby_sample_ok(df, D, new_train_CD))
        THEN { Unset("ValueError") }
        ELSE UNION { UNION { UNION { UNION {
            LET tr == tA \cup tB \cup tC \cup tD
                vA == new_val_rows(df, "A", tA)
                vB == new_val_rows(df, "B", tB)
            IN  IF ~(groupby_sample_ok(df, C \ tC, new_val_CD)
                     /\ groupby_sample_ok(df, D \ tD, new_val_CD))
                THEN { [status |-> "ValueError", train_metadata |-> tr,
                        val_metadata |-> {}, test_metadata |-> {}] }
                ELSE UNION { UNION {
                    LET vl == vA \cup vB \cup vC \cup vD
                    IN  IF ~(sample_ok(Cf, new_test_CD) /\ sample_ok(Df, new_test_CD))
                        THEN { [status |-> "ValueError", train_metadata |-> tr,
                                val_metadata |-> vl, test_metadata |-> {}] }
                        ELSE { [status |-> "done", train_metadata |-> tr,
                                val_metadata |-> vl,
                                test_metadata |-> ((A \ tA) \ vA) \cup xC \cup xD] :
                               xC \in sample(Cf, new_test_CD),
                               xD \in sample(Df, new_test_CD) }
                    : vD \in groupby_sample(df, D \ tD, new_val_CD) }
                    : vC \in groupby_sample(df, C \ tC, new_val_CD) }
            : tD \in groupby_sample(df, D, new_train_CD) }
            : tC \in groupby_sample(df, C, new_train_CD) }
            : tB \in sample(B, new_train_AB) }
            : tA \in sample(A, new_train_AB) }

\* set_original_dataset: split by source id, then the first rows of each category.
set_original_dataset(df, train_ids) ==
    LET train_metadata == { i \in DOMAIN df : df[i].source \in train_ids }
        test_metadata == { i \in DOMAIN df : df[i].source \notin train_ids }
        cat(S, c) == { i \in S : df[i].category = c }
    IN  [status |-> "done",
         train_metadata |-> UNION { HeadSet(cat(train_metadata, c), original_train) :
                                    c \in Categories },
         val_metadata |-> {},
         test_metadata |-> UNION { HeadSet(cat(test_metadata, c), original_test) :
                                   c \in Categories }]

\* setup: every result of one call.
setup(self) ==
    IF self.dataset_type = "original"
    THEN { set_original_dataset(self.metadata, self.train_ids) }
    ELSE IF self.dataset_type = "new"
    THEN set_new_dataset(self.metadata)
    ELSE { Unset("done") }

(***************************************************************************)
(* FakeavcelebDataModule.collater.  A tensor is the sequence of its frames *)
(* along the time axis; the final transpose/permute moves that axis and is *)
(* not modelled.  The label lists are copied per sample and left out.      *)
(***************************************************************************)
SeqMin(f) == CHOOSE x \in { f[i] : i \in DOMAIN f } : \A i \in DOMAIN f : x <= f[i]
SeqMax(f) == CHOOSE x \in { f[i] : i \in DOMAIN f } : \A i \in DOMAIN f : x >= f[i]

\* Lines 380-384 with the crop taken from the end of the sample.
crop_to_max_size_mut(self, wav, target_size, start, r) ==
    LET size == Len(wav)
        diff == size - target_size
    IN  IF diff <= 0 THEN [wav |-> wav, start |-> 0]
        ELSE [wav |-> Slice(wav, diff, size), start |-> diff]

\* Lines 385-386 with the given start ignored.
crop_to_max_size_unsynced(self, wav, target_size, start, r) ==
    LET size == Len(wav)
        diff == size - target_size
    IN  IF diff <= 0 THEN [wav |-> wav, start |-> 0]
        ELSE IF start = None
        THEN LET s == IF self.random_crop THEN r ELSE 0
             IN  [wav |-> Slice(wav, s, IF self.random_crop THEN size - diff + s
                                        ELSE target_size),
                  start |-> s]
        ELSE [wav |-> Slice(wav, 0, target_size), start |-> 0]

\* r is the value np.random.randint(0, diff + 1) returns.
crop_to_max_size(self, wav, target_size, start, r) ==
    LET size == Len(wav)
        diff == size - target_size
    IN  IF diff <= 0 THEN [wav |-> wav, start |-> 0]
        ELSE IF start = None
        THEN LET s == IF self.random_crop THEN r ELSE 0
             IN  [wav |-> Slice(wav, s, IF self.random_crop THEN size - diff + s
                                        ELSE target_size),
                  start |-> s]
        ELSE [wav |-> Slice(wav, Get(start), Get(start) + target_size),
              start |-> Get(start)]

\* Lines 399-402: the modality whose lengths give audio_sizes.
sized_modality_mut(audio, video) == audio

sized_modality(audio, video) == IF audio # None THEN audio ELSE video

\* Lines 403-406: audio_size.
target_size_mut(self, audio_sizes) == self.max_sample_size

\* Line 406 with the longest sample in place of the shortest.
target_size_longest(self, audio_sizes) ==
    Min(SeqMax(audio_sizes), self.max_sample_size)

target_size(self, audio_sizes) ==
    IF self.pad_audio
    THEN Min(SeqMax(audio_sizes), self.max_sample_size)
    ELSE Min(SeqMin(audio_sizes), self.max_sample_size)

\* collated_audios[i] = x: x is copied when it has audio_size frames, repeated
\* when it has one frame, and the assignment raises otherwise.
assign_ok(x, audio_size) == Len(x) = audio_size \/ Len(x) = 1
assign(x, audio_size) ==
    IF Len(x) = audio_size THEN x ELSE [t \in 1..audio_size |-> x[1]]

collater_audio(self, audios, audio_size, audio_starts, r) ==
    LET n == Len(audios)
        start_known == audio_starts # None
        starts0 == IF start_known THEN Get(audio_starts) ELSE [i \in 1..n |-> 0]
        no_mask == [t \in 1..audio_size |-> FALSE]
        one(i) ==
            IF audios[i] = None THEN [status |-> "TypeError"]
            ELSE LET audio == Get(audios[i])
                     diff == Len(audio) - audio_size
                 IN  IF diff = 0
                     THEN [status |-> "ok", row |-> audio, mask |-> no_mask,
                           start |-> starts0[i]]
                     ELSE IF diff < 0
                     THEN IF ~self.pad_audio THEN [status |-> "AssertionError"]
                          ELSE [status |-> "ok",
                                row |-> audio \o [t \in 1..(-diff) |-> 0],
                                mask |-> [t \in 1..audio_size |-> t > Len(audio)],
                                start |-> starts0[i]]
                     ELSE LET c == crop_to_max_size(self, audio, audio_size,
                                     IF start_known THEN Some(starts0[i]) ELSE None,
                                     r[i])
                          IN  IF ~assign_ok(c.wav, audio_size)
                              THEN [status |-> "RuntimeError"]
                              ELSE [status |-> "ok", row |-> assign(c.wav, audio_size),
                                    mask |-> no_mask, start |-> c.start]
        each == [i \in 1..n |-> one(i)]
        bad == { i \in 1..n : each[i].status # "ok" }
    IN  IF bad # {}
        THEN \* the first sample of the loop that raises
             [status |-> each[CHOOSE i \in bad : \A j \in bad : i <= j].status]
        ELSE [status |-> "ok",
              collated |-> [i \in 1..n |-> each[i].row],
              padding_mask |-> [i \in 1..n |-> each[i].mask],
              audio_starts |-> [i \in 1..n |-> each[i].start]]

collater(self, samples0, r) ==
    LET smp == SelectSeq(samples0, LAMBDA s : s.id # None)
        n == Len(smp)
        audio == IF smp[1].audio = None THEN None
                 ELSE Some([i \in 1..n |-> smp[i].audio])
        video == IF smp[1].video = None THEN None
                 ELSE Some([i \in 1..n |-> smp[i].video])
        sized == sized_modality(audio, video)
        audio_sizes == [i \in 1..n |-> Len(Get(Get(sized)[i]))]
        audio_size == target_size(self, audio_sizes)
        a == IF audio # None THEN collater_audio(self, Get(audio), audio_size, None, r)
             ELSE [status |-> "ok"]
        audio_starts == IF audio # None THEN Some(a.audio_starts) ELSE None
        v == IF video # None
             THEN collater_audio(self, Get(video), audio_size, audio_starts, r)
             ELSE [status |-> "ok"]
    IN  IF n = 0 THEN [status |-> "empty"]
        \* len(s) of a missing tensor, or iterating video = None
        ELSE IF sized = None \/ \E i \in 1..n : Get(sized)[i] = None
        THEN [status |-> "TypeError"]
        ELSE IF a.status # "ok" THEN [status |-> a.status]
        ELSE IF v.status # "ok" THEN [status |-> v.status]
        ELSE [status |-> "ok",
              id |-> [i \in 1..n |-> Get(smp[i].id)],
              audio |-> IF audio # None THEN Some(a.collated) ELSE None,
              video |-> IF video # None THEN Some(v.collated) ELSE None,
              padding_mask |-> IF video # None THEN v.padding_mask ELSE a.padding_mask,
              audio_size |-> audio_size,
              audio_starts |-> IF video # None THEN v.audio_starts ELSE a.audio_starts]

(***************************************************************************)
(* train_dataloader, val_dataloader, test_dataloader: one epoch of the     *)
(* DataLoader each builds.  A batch is the sequence of dataset indices it  *)
(* is collated from.  With num_workers = 0 the caller fetches each batch   *)
(* itself; otherwise batch k of the sampler is sent to a worker, workers   *)
(* finish in any order, and the results are handed out by batch number.    *)
(***************************************************************************)
Streams == {"train", "val", "test"}

\* The dataset each loader reads (val_dataloader falls back to test_dataset).
dataset_of(stream, dataset_type) ==
    IF stream = "train" THEN "train_dataset"
    ELSE IF stream = "val" /\ dataset_type # "original" THEN "val_dataset"
    ELSE "test_dataset"

\* The shuffle argument with shuffle=True passed by every loader.
shuffle_mut(stream) == TRUE

\* The shuffle argument of each loader.
shuffle(stream) == stream = "train"

\* torch.randperm(n, generator=g): the orders the seeded generator can stand for.
randperm(n) == { f \in [1..n -> 1..n] : \A i, j \in 1..n : f[i] = f[j] => i = j }

\* The index order of the epoch: the permutation drawn from the generator g
\* with shuffle, 0..n-1 in order without (indices are 1-based here).
sampler(stream, n, g) == IF shuffle(stream) THEN g ELSE [i \in 1..n |-> i]

\* The batches of an index order: consecutive runs of batch_size, the last
\* one shorter (drop_last is not set).
batch_sampler(order, batch_size) ==
    [k \in 1..((Len(order) + batch_size - 1) \div batch_size) |->
        SubSeq(order, (k - 1) * batch_size + 1, Min(k * batch_size, Len(order)))]

\* seed_worker: what np.random and random are seeded with in a worker;
\* torch.initial_seed() there is the loader's base seed plus the worker id.
seed_worker(base_seed, worker_id) == [base_seed |-> base_seed, worker_id |-> worker_id]

NoLoader ==
    [stream |-> "train", dataset |-> "train_dataset", n |-> 0, batch_size |-> 1,
     num_workers |-> 0, g |-> <<>>, batches |-> None, worker_seed |-> <<>>,
     send_idx |-> 1, queue |-> <<>>, done |-> {}, rcvd_idx |-> 1, delivered |-> <<>>]

(***************************************************************************)
(* State.                                                                  *)
(*   dataset  one Fakeavceleb object: subset, augmenation, metadata        *)
(*   media    what the wav and mp4 files of the indexed row hold           *)
(*   item     what the last __getitem__ call returned or raised            *)
(*   dm       the FakeavcelebDataModule: configuration, manifest, splits   *)
(*   samples  the list handed to collater                                  *)
(*   batch    what the last collater call returned or raised               *)
(*   stacked  one call of stacker: its arguments and what it returned      *)
(*   loader   one epoch of a DataLoader the data module has built           *)
(***************************************************************************)
Row(s, c, m, t) == [source |-> s, category |-> c, method |-> m, type |-> t]

DefaultDataset ==
    [subset |-> train, augmenation |-> FALSE,
     metadata |-> << Row("id1", "A", real, RealVideoRealAudio) >>]

DefaultMedia ==
    [sample_rate |-> 16000, channels |-> 2, audio_frames |-> 8, video_frames |-> 2]

DefaultDm ==
    [dataset_type |-> "original", metadata |-> <<>>, train_ids |-> {"id1"},
     max_sample_size |-> 500, pad_audio |-> FALSE, random_crop |-> FALSE,
     split |-> Unset("new")]

NoResult == [status |-> "none"]

NoStack == [feats |-> <<>>, stack_order |-> stack_order_audio, out |-> None]

\* Arrays of 1..MaxStackLen frames of FeatDim values each (logfbank returns at
\* least one frame).
StackInputs ==
    UNION { [1..n -> [1..FeatDim -> 0..1]] : n \in 1..MaxStackLen }

Subsets == {train, val, test}

\* Rows of a manifest with free type and method strings.
LabelRows ==
    { Row("id1", c, m, t) : c \in Categories,
                            m \in SeqsUpTo(MethodTokens, MaxMethodLen),
                            t \in SeqsUpTo(TypeTokens, MaxTypeLen) }

\* Rows of a FakeAVCeleb manifest: two sources, the four categories, the
\* held-out and the other methods of C and D.
SetupRows ==
    { Row("id1", "A", real, RealVideoRealAudio),
      Row("id2", "A", real, RealVideoRealAudio),
      Row("id1", "B", <<"rtvc">>, RealVideoFakeAudio),
      Row("id2", "B", <<"rtvc">>, RealVideoFakeAudio),
      Row("id1", "C", faceswap, FakeVideoRealAudio),
      Row("id2", "C", <<"fsgan">>, FakeVideoRealAudio),
      Row("id1", "C", <<"wav2lip">>, FakeVideoRealAudio),
      Row("id1", "D", faceswap_wav2lip, FakeVideoFakeAudio),
      Row("id2", "D", <<"fsgan", "-", "wav2lip">>, FakeVideoFakeAudio) }

\* A tensor of n frames; frame t holds t.
Ramp(n) == [t \in 1..n |-> t]
Tensors == {None} \cup { Some(Ramp(n)) : n \in 1..MaxLen }
\* The items handed to collater: __getitem__ results with an id, and items
\* without an id, which carry nothing.
Samples ==
    [id : {Some(1)}, audio : Tensors, video : Tensors]
        \cup {[id |-> None, audio |-> None, video |-> None]}

InitLabel ==
    /\ dataset \in [subset : {train}, augmenation : BOOLEAN,
                    metadata : { <<row>> : row \in LabelRows }]
    /\ media = DefaultMedia
    /\ item = NoResult
    /\ dm = DefaultDm
    /\ samples = <<>>
    /\ batch = NoResult
    /\ stacked = NoStack
    /\ loader = NoLoader

InitFeature ==
    /\ dataset \in [subset : Subsets, augmenation : BOOLEAN,
                    metadata : { DefaultDataset.metadata }]
    /\ media \in [sample_rate : {8000, 16000, 44100}, channels : 1..MaxChannels,
                  audio_frames : 1..MaxAudioFrames, video_frames : 0..MaxVideoFrames]
    /\ item = NoResult
    /\ dm = DefaultDm
    /\ samples = <<>>
    /\ batch = NoResult
    /\ stacked = NoStack
    /\ loader = NoLoader

InitSetup ==
    /\ dataset = DefaultDataset
    /\ media = DefaultMedia
    /\ item = NoResult
    /\ dm \in [dataset_type : {"original", "new", "old"},
               metadata : SeqsUpTo(SetupRows, MaxRows),
               train_ids : {{"id1"}},
               max_sample_size : {500}, pad_audio : {FALSE}, random_crop : {FALSE},
               split : {Unset("new")}]
    /\ samples = <<>>
    /\ batch = NoResult
    /\ stacked = NoStack
    /\ loader = NoLoader

InitCollate ==
    /\ dataset = DefaultDataset
    /\ media = DefaultMedia
    /\ item = NoResult
    /\ dm \in [dataset_type : {"original"}, metadata : {<<>>}, train_ids : {{"id1"}},
               max_sample_size : 1..(MaxLen + 1),
               pad_audio : BOOLEAN, random_crop : BOOLEAN,
               split : {Unset("new")}]
    /\ samples \in SeqsUpTo(Samples, MaxBatch)
    /\ batch = NoResult
    /\ stacked = NoStack
    /\ loader = NoLoader

InitStacker ==
    /\ dataset = DefaultDataset
    /\ media = DefaultMedia
    /\ item = NoResult
    /\ dm = DefaultDm
    /\ samples = <<>>
    /\ batch = NoResult
    /\ stacked \in [feats : StackInputs, stack_order : 1..MaxStackOrder, out : {None}]
    /\ loader = NoLoader

\* stacker(feats, stack_order)
Stack ==
    /\ stacked.out = None
    /\ stacked' = [stacked EXCEPT !.out = Some(stacker(stacked.feats, stacked.stack_order))]
    /\ UNCHANGED <<dataset, media, item, dm, samples, batch, loader>>

InitLoader ==
    /\ dataset = DefaultDataset
    /\ media = DefaultMedia
    /\ item = NoResult
    /\ dm \in [dataset_type : {"original", "new"}, metadata : {<<>>},
               train_ids : {{"id1"}}, max_sample_size : {500},
               pad_audio : {FALSE}, random_crop : {FALSE}, split : {Unset("done")}]
    /\ samples = <<>>
    /\ batch = NoResult
    /\ stacked = NoStack
    /\ \E stream \in Streams, n \in 1..MaxDataset, batch_size \in 1..MaxBatchSize,
          num_workers \in 0..MaxWorkers :
          \E g \in randperm(n) :
              loader = [NoLoader EXCEPT !.stream = stream,
                                        !.dataset = dataset_of(stream, dm.dataset_type),
                                        !.n = n, !.batch_size = batch_size,
                                        !.num_workers = num_workers, !.g = g]

\* iter(loader): the sampler fixes the batches of the epoch and every worker
\* is started and seeded.
Iter ==
    /\ loader.batches = None
    /\ loader' = [loader EXCEPT
           !.batches = Some(batch_sampler(sampler(loader.stream, loader.n, loader.g),
                                          loader.batch_size)),
           !.worker_seed = [w \in 1..loader.num_workers |-> seed_worker("base_seed", w - 1)],
           !.queue = [w \in 1..loader.num_workers |-> <<>>]]
    /\ UNCHANGED <<dataset, media, item, dm, samples, batch, stacked>>

Outstanding == (loader.send_idx - loader.rcvd_idx)

\* The caller sends the next batch of indices to the next worker in turn,
\* keeping at most two batches per worker outstanding (the default prefetch).
Dispatch ==
    /\ loader.batches # None
    /\ loader.num_workers > 0
    /\ loader.send_idx <= Len(Get(loader.batches))
    /\ Outstanding < 2 * loader.num_workers
    /\ LET w == ((loader.send_idx - 1) % loader.num_workers) + 1
       IN  loader' = [loader EXCEPT !.queue[w] = Append(@, loader.send_idx),
                                    !.send_idx = @ + 1]
    /\ UNCHANGED <<dataset, media, item, dm, samples, batch, stacked>>

\* Worker w fetches and collates the oldest batch sent to it.
Work ==
    /\ loader.batches # None
    /\ \E w \in 1..loader.num_workers :
          /\ loader.queue[w] # <<>>
          /\ LET k == Head(loader.queue[w])
             IN  loader' = [loader EXCEPT
                     !.queue[w] = Tail(@),
                     !.done = @ \cup {[idx |-> k, by |-> w,
                                       indices |-> Get(loader.batches)[k]]}]
    /\ UNCHANGED <<dataset, media, item, dm, samples, batch, stacked>>

\* next(it) with workers: the finished batch whose number is due is handed out.
Deliver ==
    /\ loader.batches # None
    /\ loader.num_workers > 0
    /\ \E d \in loader.done :
          /\ d.idx = loader.rcvd_idx
          /\ loader' = [loader EXCEPT !.done = @ \ {d},
                                      !.rcvd_idx = @ + 1,
                                      !.delivered = Append(@, d.indices)]
    /\ UNCHANGED <<dataset, media, item, dm, samples, batch, stacked>>

\* next(it) without workers: the caller fetches and collates the next batch.
FetchMain ==
    /\ loader.batches # None
    /\ loader.num_workers = 0
    /\ loader.rcvd_idx <= Len(Get(loader.batches))
    /\ loader' = [loader EXCEPT !.rcvd_idx = @ + 1, !.send_idx = @ + 1,
                                !.delivered = Append(@, Get(loader.batches)[loader.rcvd_idx])]
    /\ UNCHANGED <<dataset, media, item, dm, samples, batch, stacked>>

\* dataset[index]
GetItem ==
    /\ \E index \in DOMAIN dataset.metadata, coin \in BOOLEAN :
           item' = getitem(dataset, index, media, coin)
    /\ UNCHANGED <<dataset, media, dm, samples, batch, stacked, loader>>

\* dm.setup()
Setup ==
    /\ dm.split.status = "new"
    /\ \E s \in setup(dm) : dm' = [dm EXCEPT !.split = s]
    /\ UNCHANGED <<dataset, media, item, samples, batch, stacked, loader>>

\* What np.random.randint(0, diff + 1) can return for each sample of a call:
\* 0..diff for a sample that crop_to_max_size crops at random, 0 (not drawn)
\* for the others.
randint(self, samples0) ==
    LET smp == SelectSeq(samples0, LAMBDA s : s.id # None)
        n == Len(smp)
        sized == sized_modality(IF smp[1].audio = None THEN None
                                ELSE Some([i \in 1..n |-> smp[i].audio]),
                                IF smp[1].video = None THEN None
                                ELSE Some([i \in 1..n |-> smp[i].video]))
        audio_sizes == [i \in 1..n |-> Len(Get(Get(sized)[i]))]
        audio_size == target_size(self, audio_sizes)
    IN  IF n = 0 \/ ~self.random_crop THEN { [i \in 1..n |-> 0] }
        ELSE IF sized = None \/ \E i \in 1..n : Get(sized)[i] = None
        THEN { [i \in 1..n |-> 0] }
        ELSE { r \in [1..n -> 0..MaxLen] :
                 \A i \in 1..n : r[i] <= Max(0, audio_sizes[i] - audio_size) }

\* dm.collater(samples)
Collater ==
    /\ \E r \in randint(dm, samples) : batch' = collater(dm, samples, r)
    /\ UNCHANGED <<dataset, media, item, dm, samples, stacked, loader>>

NextItem == GetItem
NextSetup == Setup
NextCollate == Collater
NextStacker == Stack
NextLoader == Iter \/ Dispatch \/ Work \/ Deliver \/ FetchMain

SpecLabel == InitLabel /\ [][NextItem]_vars
SpecFeature == InitFeature /\ [][NextItem]_vars
SpecSetup == InitSetup /\ [][NextSetup]_vars
SpecCollate == InitCollate /\ [][NextCollate]_vars
SpecStacker == InitStacker /\ [][NextStacker]_vars
SpecLoader == InitLoader /\ [][NextLoader]_vars

(***************************************************************************)
(* Properties.                                                             *)
(***************************************************************************)
Meta == dataset.metadata[1]
Kept == SelectSeq(samples, LAMBDA s : s.id # None)
StackedFrames == (media.audio_frames + stack_order_audio - 1) \div stack_order_audio
AllFalse(mask) == \A i \in DOMAIN mask : \A t \in DOMAIN mask[i] : ~mask[i][t]
TimeDimIs(tensor, n) == \A i \in DOMAIN tensor : Len(tensor[i]) = n
Disjoint(S, T) == S \cap T = {}

\* C1: every returned item carries one cross-modal class in 0..3 and it is the
\* one its (v_label, a_label) pair stands for: (1,1) is 0, (0,1) is 1, (1,0) is
\* 2, (0,0) is 3.
C1_MmLabelAgreesWithPair ==
    item.status = "ok" =>
        /\ item.mm_label \in 0..3
        /\ item.mm_label = (IF item.v_label = 1 /\ item.a_label = 1 THEN 0
                            ELSE IF item.v_label = 0 /\ item.a_label = 1 THEN 1
                            ELSE IF item.v_label = 1 /\ item.a_label = 0 THEN 2
                            ELSE 3)

\* C2: when load_feature has returned, the audio has as many frames as the
\* video, and the video has the frames it was loaded with.
C2_AudioAlignedToVideo ==
    item.status = "ok" =>
        /\ Len(item.audio) = Len(item.video)
        /\ item.video = load_video(media.video_frames)

\* C2 witness: the stacked audio was longer than the video and was cut.
C2_WitnessAudioCut ==
    /\ item.status = "ok"
    /\ StackedFrames > media.video_frames
    /\ media.video_frames > 0
    /\ Len(item.audio) = media.video_frames

\* C3: after setup under either policy no manifest row is in two of the
\* train, validation and test splits.
C3_SplitsDisjoint ==
    dm.split.status = "done" =>
        /\ Disjoint(dm.split.train_metadata, dm.split.val_metadata)
        /\ Disjoint(dm.split.train_metadata, dm.split.test_metadata)
        /\ Disjoint(dm.split.val_metadata, dm.split.test_metadata)

\* C3 witness: the "new" policy has filled all three splits, category A among
\* the train and the validation rows.
C3_WitnessThreeSplits ==
    /\ dm.dataset_type = "new"
    /\ dm.split.status = "done"
    /\ \E i \in dm.split.train_metadata : dm.metadata[i].category = "A"
    /\ \E i \in dm.split.val_metadata : dm.metadata[i].category = "A"
    /\ dm.split.test_metadata # {}

\* The batch holds at least one sample, every sample has the same modalities,
\* and each tensor of it has L frames.
UniformBatch(L) ==
    /\ Kept # <<>>
    /\ \A i \in DOMAIN Kept :
          /\ (Kept[i].audio = None) = (Kept[1].audio = None)
          /\ (Kept[i].video = None) = (Kept[1].video = None)
          /\ Kept[i].audio # None => Len(Get(Kept[i].audio)) = L
          /\ Kept[i].video # None => Len(Get(Kept[i].video)) = L
    /\ ~(Kept[1].audio = None /\ Kept[1].video = None)

\* C4: a batch whose samples all have L <= max_sample_size frames collates to
\* tensors of L frames and a padding mask that is False everywhere.
C4_SameLengthRoundTrip ==
    \A L \in 1..MaxLen :
        (UniformBatch(L) /\ L <= dm.max_sample_size /\ batch.status # "none") =>
            /\ batch.status = "ok"
            /\ batch.audio # None => TimeDimIs(Get(batch.audio), L)
            /\ batch.video # None => TimeDimIs(Get(batch.video), L)
            /\ TimeDimIs(batch.padding_mask, L)
            /\ AllFalse(batch.padding_mask)

\* C4 witness: two samples with audio and video of the same length, below
\* max_sample_size, have been collated.
C4_WitnessUniformBatch ==
    /\ batch.status = "ok"
    /\ Len(Kept) >= 2
    /\ \E L \in 1..MaxLen : UniformBatch(L) /\ L < dm.max_sample_size
    /\ batch.audio # None
    /\ batch.video # None

\* The lengths collater measures: the audio's, or the video's without audio.
KeptSizes ==
    [i \in DOMAIN Kept |-> IF Kept[1].audio # None THEN Len(Get(Kept[i].audio))
                           ELSE Len(Get(Kept[i].video))]

\* C5: with pad_audio and random_crop off, the target length is the smaller of
\* the shortest sample and max_sample_size, and every sample is cut to its
\* first target-length frames: all crops start at 0.
C5_DefaultCropsFromStart ==
    (batch.status = "ok" /\ ~dm.pad_audio /\ ~dm.random_crop) =>
        LET target == Min(SeqMin(KeptSizes), dm.max_sample_size)
        IN  /\ batch.audio_size = target
            /\ \A i \in DOMAIN Kept :
                  /\ batch.audio # None =>
                        Get(batch.audio)[i] = Take(Get(Kept[i].audio), target)
                  /\ batch.video # None =>
                        Get(batch.video)[i] = Take(Get(Kept[i].video), target)
                  /\ batch.audio_starts[i] = 0

\* C5 witness: in the default mode a sample longer than the target has been
\* cropped next to a shorter one.
C5_WitnessCropped ==
    /\ batch.status = "ok"
    /\ ~dm.pad_audio
    /\ ~dm.random_crop
    /\ batch.audio # None
    /\ batch.video # None
    /\ \E i, j \in DOMAIN Kept :
          /\ Len(Get(Kept[i].audio)) > batch.audio_size
          /\ Len(Get(Kept[j].audio)) = batch.audio_size

\* C6: m_label is 1 exactly when the method string is "real".
C6_MLabelIffMethodIsReal ==
    item.status = "ok" => (item.m_label = 1 <=> Meta.method = real)

\* C7: s_label is 1 exactly when the category is not "B" and the sample was
\* not augmented; an augmented sample has s_label 0 whatever its category.
C7_SLabel ==
    item.status = "ok" =>
        /\ item.s_label \in {0, 1}
        /\ item.s_label = 1 <=> (Meta.category # "B" /\ ~item.modified)

\* C7 witness: an augmented sample of a category other than "B" got s_label 0.
C7_WitnessAugmentedNotB ==
    /\ item.status = "ok"
    /\ item.modified
    /\ Meta.category # "B"
    /\ item.s_label = 0

\* C8: load_feature returns features only for a 16 kHz single-channel
\* waveform; any other sample rate or channel count ends in an assertion error.
C8_OnlyMono16kAccepted ==
    item.status # "none" =>
        IF media.sample_rate = 16000 /\ media.channels = 1
        THEN item.status \in {"ok", "AssertionError"}
        ELSE item.status = "AssertionError"

\* The rows of category c in split S.
InSplit(S, c) == { i \in S : dm.metadata[i].category = c }

\* C9: setup never completes with a split that holds fewer rows of a category
\* than the policy's count for it, nor without having run a policy.
C9_SetupNeverShort ==
    dm.split.status = "done" =>
        /\ dm.dataset_type \in {"original", "new"}
        /\ dm.dataset_type = "original" =>
              \A c \in Categories :
                  /\ Cardinality(InSplit(dm.split.train_metadata, c)) = original_train
                  /\ Cardinality(InSplit(dm.split.test_metadata, c)) = original_test
        /\ dm.dataset_type = "new" =>
              \A c \in {"A", "B"} :
                  /\ Cardinality(InSplit(dm.split.train_metadata, c)) = new_train_AB
                  /\ Cardinality(InSplit(dm.split.val_metadata, c)) = new_val_AB

\* Every kept sample lacks the modality `absent` and has the modality `present`.
OneModality(absent, present) ==
    /\ Kept # <<>>
    /\ \A i \in DOMAIN Kept : Kept[i][absent] = None /\ Kept[i][present] # None

\* C10: an audio-only or a video-only batch collates without error; the target
\* length comes from the present modality, the absent modality is None in the
\* result and the padding mask is there.
C10_OneModalityBatch ==
    \A p \in {<<"audio", "video">>, <<"video", "audio">>} :
        (OneModality(p[1], p[2]) /\ batch.status # "none") =>
            LET sizes == [i \in DOMAIN Kept |-> Len(Get(Kept[i][p[2]]))]
                target == Min(IF dm.pad_audio THEN SeqMax(sizes) ELSE SeqMin(sizes),
                              dm.max_sample_size)
            IN  /\ batch.status = "ok"
                /\ batch[p[1]] = None
                /\ batch[p[2]] # None
                /\ TimeDimIs(Get(batch[p[2]]), target)
                /\ Len(batch.padding_mask) = Len(Kept)
                /\ TimeDimIs(batch.padding_mask, target)

\* C10 witness: a video-only batch of samples of different lengths has been
\* collated.
C10_WitnessVideoOnly ==
    /\ OneModality("audio", "video")
    /\ batch.status = "ok"
    /\ \E i, j \in DOMAIN Kept : Len(Get(Kept[i].video)) # Len(Get(Kept[j].video))

\* Every kept sample has audio and video, of the same length.
Aligned ==
    /\ Kept # <<>>
    /\ \A i \in DOMAIN Kept :
          /\ Kept[i].audio # None
          /\ Kept[i].video # None
          /\ Len(Get(Kept[i].audio)) = Len(Get(Kept[i].video))

C14_AugmentedOnlyInTrain ==
    item.status = "ok" =>
        /\ item.modified => (dataset.subset = train /\ dataset.augmenation)
        /\ (dataset.subset \in {val, test} \/ ~dataset.augmenation) => ~item.modified

\* C14 witness: a sample of the "train" subset has been augmented.
C14_WitnessAugmented ==
    /\ item.status = "ok"
    /\ item.modified
    /\ dataset.subset = train

\* C15: with pad_audio off, a batch of length-aligned samples never fails the
\* `assert self.pad_audio` (no sample is shorter than the target) and its
\* padding mask is False everywhere, whatever the lengths and max_sample_size.
C15_DefaultModeNeverPads ==
    (~dm.pad_audio /\ Aligned /\ batch.status # "none") =>
        /\ batch.status = "ok"
        /\ \A i \in DOMAIN Kept : Len(Get(Kept[i].audio)) >= batch.audio_size
        /\ AllFalse(batch.padding_mask)

\* C15 witness: aligned samples of different lengths have been collated with
\* pad_audio off.
C15_WitnessMixedLengths ==
    /\ ~dm.pad_audio
    /\ Aligned
    /\ batch.status = "ok"
    /\ \E i, j \in DOMAIN Kept : Len(Get(Kept[i].audio)) < Len(Get(Kept[j].audio))

CeilDiv(a, b) == (a + b - 1) \div b

\* C12: stacker returns ceil(L / k) frames, each k times as wide, holding the
\* input followed by zero rows up to a multiple of k; no zero row is added
\* when L is a multiple of k, and with k = 1 the input comes back unchanged.
C12_StackerLengths ==
    stacked.out # None =>
        LET L == Len(stacked.feats)
            k == stacked.stack_order
            out == Get(stacked.out)
        IN  /\ Len(out) = CeilDiv(L, k)
            /\ \A t \in DOMAIN out : Len(out[t]) = k * FeatDim
            /\ Flatten(out) =
                   Flatten(stacked.feats) \o
                       [j \in 1..((CeilDiv(L, k) * k - L) * FeatDim) |-> 0]
            /\ L % k = 0 => Flatten(out) = Flatten(stacked.feats)
            /\ k = 1 => out = stacked.feats

\* C12 witness: an input longer than k and not a multiple of k has been
\* stacked with k > 1.
C12_WitnessPaddedTail ==
    /\ stacked.out # None
    /\ stacked.stack_order > 1
    /\ Len(stacked.feats) > stacked.stack_order
    /\ Len(stacked.feats) % stacked.stack_order # 0

\* The batches an epoch must yield whatever the workers do: runs of
\* batch_size over the generator's permutation for the train stream, over
\* 1..n in order for the val and test streams.
ExpectedBatches ==
    LET order == IF loader.stream = "train" THEN loader.g
                 ELSE [i \in 1..loader.n |-> i]
        b == loader.batch_size
    IN  [k \in 1..((loader.n + b - 1) \div b) |->
            [j \in 1..(Min(k * b, loader.n) - (k - 1) * b) |-> order[(k - 1) * b + j]]]

EpochOver ==
    /\ loader.batches # None
    /\ loader.rcvd_idx > Len(Get(loader.batches))

\* C11: the batches handed out in an epoch, and their order, are those of the
\* generator's permutation (train) or of the dataset order (val, test), for
\* every number of workers and every interleaving of the workers.
C11_BatchOrderFixed ==
    /\ Len(loader.delivered) <= Len(ExpectedBatches)
    /\ loader.delivered = SubSeq(ExpectedBatches, 1, Len(loader.delivered))
    /\ EpochOver => loader.delivered = ExpectedBatches

\* C11 witness: with two workers a later batch was finished before the one
\* that is due, after a first batch had been handed out.
C11_WitnessOutOfOrder ==
    /\ loader.stream = "train"
    /\ loader.num_workers >= 2
    /\ Len(loader.delivered) >= 1
    /\ \E d \in loader.done : d.idx > loader.rcvd_idx
    /\ \A d \in loader.done : d.idx # loader.rcvd_idx

====
